---- MODULE Spec2Model ----
(***************************************************************************)
(* Verification-and-correction core of the financial report generator.     *)
(*                                                                         *)
(* The App component (src/App.tsx) owns the state; handleGenerateReport is *)
(* an async function, so it runs in atomic segments separated by its two   *)
(* awaits (generateFinancialReport, fixFinancialReport).  Each segment is  *)
(* one action.  The user-driven handlers are enabled exactly when the      *)
(* element that triggers them is rendered.                                 *)
(*                                                                         *)
(* Amounts are integers in cents, so the tolerance 1.0 is 100.             *)
(***************************************************************************)
EXTENDS Integers, Sequences, FiniteSets, TLC

\* ------------------------------------------------------------------ bounds
\* Number of handleGenerateReport invocations tracked at once.
MaxInvocations == 2
\* Rows the financial_statements and audit_logs tables may hold, and the last
\* reading of the database clock.
MaxStatements == 2
MaxAuditLogs == 1
MaxTime == 4

\* ------------------------------------------------------- program constants
\* "if (attempt > 5)" : the correction loop's safety break.
MaxAttempts == 5
\* The number quoted in the message thrown by the safety break.
BudgetErrorAttempts == 5
\* Discrepancy tolerance 1.0, in cents.
Tolerance == 100

\* ------------------------------------------------------------- data model
\* JavaScript null (reportData, verificationResult, error).
NULL == [null |-> TRUE]

Periods == <<"amount2025", "amount2024">>

\* A FinancialItem; the label plays no part in verification.
Item(a25, a24) == [amount2025 |-> a25, amount2024 |-> a24]
\* A SingleFinancialValue with both periods reported.
Value(a25, a24) == [amount2025 |-> a25, amount2024 |-> a24]
\* A SingleFinancialValue whose current-period amount is absent.
ValuePriorOnly(a24) == [amount2024 |-> a24]

RECURSIVE SumItems(_, _)
SumItems(items, p) ==
    IF items = <<>> THEN 0
    ELSE Head(items)[p] + SumItems(Tail(items), p)

Abs(x) == IF x < 0 THEN -x ELSE x

Has(v, p) == p \in DOMAIN v

\* A check that cannot be computed recorded as a failure.
NotEvaluatedAsFailure(name, p) ==
    [name |-> name, period |-> p, discrepancy |-> 0, passed |-> FALSE,
     notes |-> "not evaluated"]

NotEvaluated(name, p) ==
    [name |-> name, period |-> p, discrepancy |-> 0, passed |-> TRUE,
     notes |-> "not evaluated"]

\* A check that passes only on an exact match.
EvaluatedExact(name, p, d) ==
    [name |-> name, period |-> p, discrepancy |-> d, passed |-> (d = 0)]

\* A check whose comparison with the tolerance is exclusive.
EvaluatedStrict(name, p, d) ==
    [name |-> name, period |-> p, discrepancy |-> d,
     passed |-> (Abs(d) < Tolerance)]

Evaluated(name, p, d) ==
    [name |-> name, period |-> p, discrepancy |-> d,
     passed |-> (Abs(d) <= Tolerance)]

\* The equation taken from the other side: liabilities and equity less assets.
BalanceSheetCheckReversed(report, p) ==
    LET bs == report.balanceSheet IN
    IF Has(bs.totalAssets, p) /\ Has(bs.totalLiabilities, p) /\ Has(bs.totalEquity, p)
    THEN Evaluated("Balance Sheet Equation", p,
                   (bs.totalLiabilities[p] + bs.totalEquity[p]) - bs.totalAssets[p])
    ELSE NotEvaluated("Balance Sheet Equation", p)

BalanceSheetCheck(report, p) ==
    LET bs == report.balanceSheet IN
    IF Has(bs.totalAssets, p) /\ Has(bs.totalLiabilities, p) /\ Has(bs.totalEquity, p)
    THEN Evaluated("Balance Sheet Equation", p,
                   bs.totalAssets[p] - (bs.totalLiabilities[p] + bs.totalEquity[p]))
    ELSE NotEvaluated("Balance Sheet Equation", p)

IncomeStatementCheck(report, p) ==
    LET is == report.incomeStatement IN
    IF Has(is.netProfit, p)
    THEN Evaluated("Income Statement Integrity", p,
                   (SumItems(is.revenue, p) - SumItems(is.expenses, p)) - is.netProfit[p])
    ELSE NotEvaluated("Income Statement Integrity", p)

\* The cash flow check comparing both periods' sums with the current period's
\* reported net change.
CashFlowCheckAgainstCurrent(report, p) ==
    LET cf == report.cashFlowStatement IN
    IF Has(cf.netChangeInCash, p)
    THEN Evaluated("Cash Flow Integrity", p,
                   (SumItems(cf.operatingActivities, p)
                    + SumItems(cf.investingActivities, p)
                    + SumItems(cf.financingActivities, p)) - cf.netChangeInCash.amount2025)
    ELSE NotEvaluated("Cash Flow Integrity", p)

CashFlowCheck(report, p) ==
    LET cf == report.cashFlowStatement IN
    IF Has(cf.netChangeInCash, p)
    THEN Evaluated("Cash Flow Integrity", p,
                   (SumItems(cf.operatingActivities, p)
                    + SumItems(cf.investingActivities, p)
                    + SumItems(cf.financingActivities, p)) - cf.netChangeInCash[p])
    ELSE NotEvaluated("Cash Flow Integrity", p)

Checks(report) ==
    << BalanceSheetCheck(report, Periods[1]), BalanceSheetCheck(report, Periods[2]),
       IncomeStatementCheck(report, Periods[1]), IncomeStatementCheck(report, Periods[2]),
       CashFlowCheck(report, Periods[1]), CashFlowCheck(report, Periods[2]) >>

\* The status derived with the warning tested before the failure.
OverallStatusWarningsFirst(checks) ==
    IF \E k \in DOMAIN checks : "notes" \in DOMAIN checks[k] THEN "Passed with Warnings"
    ELSE IF \E k \in DOMAIN checks : ~checks[k].passed
         THEN "Failed"
         ELSE "Passed"

OverallStatus(checks) ==
    IF \E k \in DOMAIN checks : ~checks[k].passed THEN "Failed"
    ELSE IF \E k \in DOMAIN checks : "notes" \in DOMAIN checks[k]
         THEN "Passed with Warnings"
         ELSE "Passed"

verifyReportData(report) ==
    LET checks == Checks(report) IN
    [overallStatus |-> OverallStatus(checks), checks |-> checks]

\* ------------------------------------------------ what the generator returns
MakeReport(totalAssets, totalLiabilities, totalEquity, netProfit) ==
    [incomeStatement |->
        [revenue   |-> << Item(90000, 80000) >>,
         expenses  |-> << Item(40000, 35000), Item(20000, 15000) >>,
         netProfit |-> netProfit],
     balanceSheet |->
        [equity           |-> << Item(10000, 10000), Item(20000, 15000) >>,
         totalAssets      |-> totalAssets,
         totalLiabilities |-> totalLiabilities,
         totalEquity      |-> totalEquity],
     cashFlowStatement |->
        [operatingActivities |-> << Item(5000, 4000) >>,
         investingActivities |-> << Item(-2000, -1000) >>,
         financingActivities |-> << Item(500, 0) >>,
         netChangeInCash     |-> Value(3500, 3000)]]

\* Every identity holds in both periods.
ReportBalanced ==
    MakeReport(Value(100000, 90000), Value(70000, 65000), Value(30000, 25000),
               Value(30000, 30000))
\* totalAssets 1000, totalLiabilities 700, totalEquity 250 in the current period.
ReportImbalanced ==
    MakeReport(Value(100000, 90000), Value(70000, 65000), Value(25000, 25000),
               Value(30000, 30000))
\* netProfit off by more than the tolerance in the prior period.
ReportBadProfit ==
    MakeReport(Value(100000, 90000), Value(70000, 65000), Value(30000, 25000),
               Value(30000, 30101))
\* totalAssets of the current period is absent; everything else is consistent.
ReportNoAssets ==
    MakeReport(ValuePriorOnly(90000), Value(70000, 65000), Value(30000, 25000),
               Value(30000, 30000))

Reports == { ReportBalanced, ReportImbalanced, ReportBadProfit, ReportNoAssets }

\* ----------------------------------------------------------- error values
\* The error state holds a message; messages built by the catch block carry
\* the message of the error that was caught.
MsgUploadBoth == [message |-> "Please upload both financial documents."]
MsgApiKeyRequired == [message |-> "API Key is required for OpenRouter."]
MsgCancelled == [message |-> "Report generation was cancelled by the user."]
MsgUnable ==
    [message |-> "The AI was unable to generate a mathematically consistent report after several attempts."]
MsgFailed(errorMessage) ==
    [message |-> "Failed to generate report.", detail |-> errorMessage]

\* The safety break throwing the message of a failed correction call.
BudgetErrorAsGeneratorFailure == "The AI model failed to correct the financial data."

\* Error thrown by the loop's safety break; its text quotes BudgetErrorAttempts.
BudgetError == "Failed to correct the report after 5 attempts."
\* Errors thrown by generateFinancialReport.
GenerateErrors ==
    { "The AI model failed to process the financial data.",
      "Gemini API key is missing. Please provide one in the config or set the environment variable." }
\* Errors thrown by fixFinancialReport.
FixErrors ==
    { "The AI model failed to correct the financial data.",
      "Gemini API key is missing." }

\* ------------------------------------------------------------------ state
VARIABLES
    reportData,             \* published report, or NULL
    verificationResult,     \* published certificate, or NULL
    isLoading,
    error,                  \* message shown to the user, or NULL
    file2024, file2025,     \* TRUE when a document is selected
    apiProvider, apiKey,
    retryAttempt,           \* attempt counter exposed to the loading view
    isGenerationCancelled,  \* isGenerationCancelledRef.current
    inv,                    \* the invocations of handleGenerateReport that reached the
                            \* generator: those in flight and the last to end
    verifierInput,          \* a report handed to verifyReportData on its own
    verifierOutput,         \* the certificate it returned, or NULL
    fixRequest,             \* the correction request built from that pair, or NULL
    user,                   \* id of the signed-in user (auth.uid()), or NULL
    profile,                \* the signed-in user's profile, or NULL
    loading,                \* the session is still being looked up
    authMode,               \* "login" or "signup"
    viewMode,               \* "auth", "dashboard", "add-company", "generate-report"
    selectedCompany,        \* a company id, or NULL
    companies,              \* table: company id -> row, or NULL
    company_access,         \* table: a set of rows
    financial_statements,   \* table: rows in order of insertion, id = position
    audit_logs,             \* table: rows in order of insertion
    now                     \* the database clock

\* The state of a verification run on its own.
verifierVars == << verifierInput, verifierOutput >>

\* The state of AppContent and of the database behind it.
shellVars == << user, profile, loading, authMode, viewMode, selectedCompany >>
dbVars == << companies, company_access, financial_statements, audit_logs, now >>
enhancedVars == << shellVars, dbVars >>

\* Everything outside AppContent and the database.
baseVars == << reportData, verificationResult, isLoading, error, file2024, file2025,
               apiProvider, apiKey, retryAttempt, isGenerationCancelled, inv,
               verifierInput, verifierOutput, fixRequest >>

\* Everything outside the App component.
outsideVars == << verifierVars, fixRequest, enhancedVars >>

\* The state of the App component.
appVars == << reportData, verificationResult, isLoading, error, file2024, file2025,
              apiProvider, apiKey, retryAttempt, isGenerationCancelled, inv >>

vars == << reportData, verificationResult, isLoading, error, file2024, file2025,
           apiProvider, apiKey, retryAttempt, isGenerationCancelled, inv,
           verifierInput, verifierOutput, fixRequest,
           user, profile, loading, authMode, viewMode, selectedCompany,
           companies, company_access, financial_statements, audit_logs, now >>

Invocations == 1..MaxInvocations

\* An invocation: its position (pc), its local variables (attempt,
\* currentReportData, currentVerification) and a record of what it did:
\*   calls            generator calls it issued
\*   returned         the reports the generator returned to it, in order
\*   verified         verifications it performed
\*   cancelRequested  handleCancel or handleReset ran while it was awaiting
\*   cancelSeen       a check of the cancellation flag found it set
\*   threw            the message of the generator error it caught, or "none"
\*   flagOnEntry      the cancellation flag as it stood when the invocation began
\*   published        the (report, certificate) pair it published, or NULL
\*   surfaced         the error it set when it ended, or NULL
NotStarted ==
    [pc |-> "idle", attempt |-> 0, currentReportData |-> NULL,
     currentVerification |-> NULL, calls |-> 0, returned |-> << >>, verified |-> 0,
     cancelRequested |-> FALSE, cancelSeen |-> FALSE, threw |-> "none",
     flagOnEntry |-> FALSE, published |-> NULL, surfaced |-> NULL]

Awaiting(i) == inv[i].pc \in {"generate", "fix"}

\* Where a new invocation is recorded: the first record not in flight.
FreeSlot ==
    CHOOSE i \in Invocations : ~Awaiting(i) /\ \A j \in 1..(i - 1) : Awaiting(j)

\* The component as mounted.
Mounted ==
    /\ reportData = NULL
    /\ verificationResult = NULL
    /\ isLoading = FALSE
    /\ error = NULL
    /\ file2024 = FALSE
    /\ file2025 = FALSE
    /\ apiProvider = "gemini"
    /\ apiKey = ""
    /\ retryAttempt = 0
    /\ isGenerationCancelled = FALSE
    /\ inv = [i \in Invocations |-> NotStarted]

\* The users with a profile, the company ids and the year ends in use.
UserIds == { [uuid |-> "u1"], [uuid |-> "u2"] }
CompanyIds == {"c1"}
YearEnds == {"2025-06-30"}

\* AppContent as mounted (lines 15-18) over the schema as migrated: every
\* table is empty and the session has not been looked up yet.
Installed ==
    /\ user = NULL
    /\ profile = NULL
    /\ loading = TRUE
    /\ authMode = "login"
    /\ viewMode = "auth"
    /\ selectedCompany = NULL
    /\ companies = [c \in CompanyIds |-> NULL]
    /\ company_access = {}
    /\ financial_statements = << >>
    /\ audit_logs = << >>
    /\ now = 0

Init ==
    /\ Mounted
    /\ Installed
    /\ verifierInput = NULL
    /\ verifierOutput = NULL
    /\ fixRequest = NULL

\* ------------------------------------------------------ what is rendered
ShowsReport == reportData # NULL /\ verificationResult # NULL
ShowsUploadView == ~ShowsReport /\ ~isLoading
ShowsLoadingView == ~ShowsReport /\ isLoading
ShowsErrorView == ~ShowsReport /\ error # NULL /\ ~isLoading
isGeneratorDisabled == ~file2024 \/ ~file2025 \/ isLoading

\* ------------------------------------------------------------ user input
SelectFile2024 ==
    /\ ShowsUploadView
    /\ file2024' = ~file2024
    /\ UNCHANGED << reportData, verificationResult, isLoading, error, file2025,
                    apiProvider, apiKey, retryAttempt, isGenerationCancelled,
                    inv, outsideVars >>

SelectFile2025 ==
    /\ ShowsUploadView
    /\ file2025' = ~file2025
    /\ UNCHANGED << reportData, verificationResult, isLoading, error, file2024,
                    apiProvider, apiKey, retryAttempt, isGenerationCancelled,
                    inv, outsideVars >>

ConfigureApi ==
    /\ ShowsUploadView
    /\ \E p \in {"gemini", "openrouter"}, k \in {"", "key"} :
          /\ << p, k >> # << apiProvider, apiKey >>
          /\ apiProvider' = p
          /\ apiKey' = k
    /\ UNCHANGED << reportData, verificationResult, isLoading, error, file2024,
                    file2025, retryAttempt, isGenerationCancelled, inv,
                    outsideVars >>

\* ------------------------------------------------- handleGenerateReport
\* What the user supplies: the two documents and the API configuration.
Inputs == << file2024, file2025, apiProvider, apiKey >>

\* The handler without line 46: the flag keeps the value the last cancellation
\* or reset left in it.
handleGenerateReportKeepsFlag ==
    /\ ShowsUploadView
    /\ ~isGeneratorDisabled
    /\ IF ~file2024 \/ ~file2025
       THEN /\ error' = MsgUploadBoth
            /\ UNCHANGED << reportData, verificationResult, isLoading, retryAttempt,
                            isGenerationCancelled, inv >>
       ELSE IF apiProvider = "openrouter" /\ apiKey = ""
       THEN /\ error' = MsgApiKeyRequired
            /\ UNCHANGED << reportData, verificationResult, isLoading, retryAttempt,
                            isGenerationCancelled, inv >>
       ELSE /\ \E i \in Invocations : ~Awaiting(i)
            /\ isLoading' = TRUE
            /\ error' = NULL
            /\ reportData' = NULL
            /\ verificationResult' = NULL
            /\ retryAttempt' = 1
            /\ isGenerationCancelled' = isGenerationCancelled
            /\ inv' = [inv EXCEPT ![FreeSlot] =
                          [NotStarted EXCEPT !.pc = "generate", !.attempt = 1,
                                             !.calls = 1,
                                             !.flagOnEntry = isGenerationCancelled]]
    /\ UNCHANGED << Inputs, outsideVars >>

\* The handler with lines 42-46 moved above the input checks: a rejected
\* invocation has already cleared the report, the counter and the flag.
handleGenerateReportResetsFirst ==
    /\ ShowsUploadView
    /\ ~isGeneratorDisabled
    /\ IF ~file2024 \/ ~file2025
       THEN /\ error' = MsgUploadBoth
            /\ reportData' = NULL
            /\ verificationResult' = NULL
            /\ retryAttempt' = 0
            /\ isGenerationCancelled' = FALSE
            /\ UNCHANGED << isLoading, inv >>
       ELSE IF apiProvider = "openrouter" /\ apiKey = ""
       THEN /\ error' = MsgApiKeyRequired
            /\ reportData' = NULL
            /\ verificationResult' = NULL
            /\ retryAttempt' = 0
            /\ isGenerationCancelled' = FALSE
            /\ UNCHANGED << isLoading, inv >>
       ELSE /\ \E i \in Invocations : ~Awaiting(i)
            /\ isLoading' = TRUE
            /\ error' = NULL
            /\ reportData' = NULL
            /\ verificationResult' = NULL
            /\ retryAttempt' = 1
            /\ isGenerationCancelled' = FALSE
            /\ inv' = [inv EXCEPT ![FreeSlot] =
                          [NotStarted EXCEPT !.pc = "generate", !.attempt = 1,
                                             !.calls = 1,
                                             !.flagOnEntry = isGenerationCancelled]]
    /\ UNCHANGED << Inputs, outsideVars >>

\* Lines 30-55: the input checks, the resets and the first generator call.
handleGenerateReport ==
    /\ ShowsUploadView
    /\ ~isGeneratorDisabled
    /\ IF ~file2024 \/ ~file2025
       THEN /\ error' = MsgUploadBoth
            /\ UNCHANGED << reportData, verificationResult, isLoading, retryAttempt,
                            isGenerationCancelled, inv >>
       ELSE IF apiProvider = "openrouter" /\ apiKey = ""
       THEN /\ error' = MsgApiKeyRequired
            /\ UNCHANGED << reportData, verificationResult, isLoading, retryAttempt,
                            isGenerationCancelled, inv >>
       ELSE /\ \E i \in Invocations : ~Awaiting(i)
            /\ isLoading' = TRUE
            /\ error' = NULL
            /\ reportData' = NULL
            /\ verificationResult' = NULL
            /\ retryAttempt' = 1
            /\ isGenerationCancelled' = FALSE
            /\ inv' = [inv EXCEPT ![FreeSlot] =
                          [NotStarted EXCEPT !.pc = "generate", !.attempt = 1,
                                             !.calls = 1,
                                             !.flagOnEntry = isGenerationCancelled]]
    /\ UNCHANGED << Inputs, outsideVars >>

\* The invocation returns: its locals go out of scope.
Ended(rec, published, surfaced) ==
    [rec EXCEPT !.pc = "done", !.attempt = 0, !.currentReportData = NULL,
                !.currentVerification = NULL, !.published = published,
                !.surfaced = surfaced]

\* Lines 57-59 and 78-80 without setError: the invocation just stops.
EndCancelledSilently(i, rec) ==
    /\ isLoading' = FALSE
    /\ inv' = [inv EXCEPT ![i] = Ended([rec EXCEPT !.cancelSeen = TRUE], NULL, NULL)]
    /\ UNCHANGED << reportData, verificationResult, retryAttempt, error,
                    isGenerationCancelled >>

\* Lines 57-59 and 78-80 (then the finally block): the flag was found set.
EndCancelled(i, rec) ==
    /\ error' = MsgCancelled
    /\ isLoading' = FALSE
    /\ inv' = [inv EXCEPT ![i] = Ended([rec EXCEPT !.cancelSeen = TRUE], NULL, MsgCancelled)]
    /\ UNCHANGED << reportData, verificationResult, retryAttempt,
                    isGenerationCancelled >>

\* The catch block without its test of the flag: the generator's error is
\* always the one shown.
EndCaughtIgnoringFlag(i, rec, errorMessage) ==
    /\ error' = MsgFailed(errorMessage)
    /\ isLoading' = FALSE
    /\ inv' = [inv EXCEPT ![i] =
                  Ended([rec EXCEPT !.cancelSeen = isGenerationCancelled], NULL,
                        MsgFailed(errorMessage))]
    /\ UNCHANGED << reportData, verificationResult, retryAttempt,
                    isGenerationCancelled >>

\* Lines 93-103: the catch block and the finally block.
EndCaught(i, rec, errorMessage) ==
    LET msg == IF ~isGenerationCancelled THEN MsgFailed(errorMessage)
               ELSE MsgCancelled
    IN  /\ error' = msg
        /\ isLoading' = FALSE
        /\ inv' = [inv EXCEPT ![i] =
                      Ended([rec EXCEPT !.cancelSeen = isGenerationCancelled], NULL, msg)]
        /\ UNCHANGED << reportData, verificationResult, retryAttempt,
                        isGenerationCancelled >>

\* Line 65: the loop condition.
ShouldCorrect(cancelled, verification) ==
    ~cancelled /\ verification.overallStatus = "Failed"

\* The safety break one attempt late.
BudgetExhaustedLate(attempt) == attempt > MaxAttempts + 1

\* The safety break written with ">=": it fires one attempt early.
BudgetExhaustedEarly(attempt) == attempt >= MaxAttempts

\* Line 67: the safety break, tested on the incremented counter.
BudgetExhausted(attempt) == attempt > MaxAttempts

\* Line 86 written as "=== 'Passed'".
ShouldPublishPassedOnly(verification) == verification.overallStatus = "Passed"

\* Line 86.
ShouldPublish(verification) == verification.overallStatus # "Failed"

\* The fix call issued without line 70: the exposed counter is left behind.
IssueFixStaleCounter(i, rec, report, verification) ==
    /\ retryAttempt' = rec.attempt
    /\ inv' = [inv EXCEPT ![i] =
                  [rec EXCEPT !.pc = "fix", !.attempt = rec.attempt + 1,
                              !.currentReportData = report,
                              !.currentVerification = verification,
                              !.calls = rec.calls + 1]]
    /\ UNCHANGED << reportData, verificationResult, isLoading, error,
                    isGenerationCancelled >>

\* The fix call issued with the certificate of the report before the last:
\* line 83 assigning after the next call instead of before it.
IssueFixStaleCertificate(i, rec, report, verification) ==
    /\ retryAttempt' = rec.attempt + 1
    /\ inv' = [inv EXCEPT ![i] =
                  [rec EXCEPT !.pc = "fix", !.attempt = rec.attempt + 1,
                              !.currentReportData = report,
                              !.currentVerification = rec.currentVerification,
                              !.calls = rec.calls + 1]]
    /\ UNCHANGED << reportData, verificationResult, isLoading, error,
                    isGenerationCancelled >>

\* Line 75 without its await: two fix calls go out for one failed report.
IssueFixTwice(i, rec, report, verification) ==
    /\ retryAttempt' = rec.attempt + 1
    /\ inv' = [inv EXCEPT ![i] =
                  [rec EXCEPT !.pc = "fix", !.attempt = rec.attempt + 1,
                              !.currentReportData = report,
                              !.currentVerification = verification,
                              !.calls = rec.calls + 2]]
    /\ UNCHANGED << reportData, verificationResult, isLoading, error,
                    isGenerationCancelled >>

\* Lines 66-75: the counter is bumped and exposed, and the fix call is issued
\* with the failed report and its certificate.
IssueFix(i, rec, report, verification) ==
    /\ retryAttempt' = rec.attempt + 1
    /\ inv' = [inv EXCEPT ![i] =
                  [rec EXCEPT !.pc = "fix", !.attempt = rec.attempt + 1,
                              !.currentReportData = report,
                              !.currentVerification = verification,
                              !.calls = rec.calls + 1]]
    /\ UNCHANGED << reportData, verificationResult, isLoading, error,
                    isGenerationCancelled >>

\* Lines 87-88, then the finally block.
Publish(i, rec, report, verification) ==
    /\ reportData' = report
    /\ verificationResult' = verification
    /\ isLoading' = FALSE
    /\ inv' = [inv EXCEPT ![i] =
                  Ended(rec, [report |-> report, certificate |-> verification], NULL)]
    /\ UNCHANGED << error, retryAttempt, isGenerationCancelled >>

\* Lines 89-91, then the finally block.
EndUnpublished(i, rec) ==
    LET msg == IF ~isGenerationCancelled THEN MsgUnable ELSE error
    IN  /\ error' = msg
        /\ isLoading' = FALSE
        /\ inv' = [inv EXCEPT ![i] =
                      Ended(rec, NULL, IF ~isGenerationCancelled THEN MsgUnable ELSE NULL)]
        /\ UNCHANGED << reportData, verificationResult, retryAttempt,
                        isGenerationCancelled >>

\* The loop as it would be with the budget in its condition and no test after
\* it: "while (failed && attempt < 5) { ... } setReportData(...)".
CorrectionLoopPublishesLast(i, rec, report, verification) ==
    IF ShouldCorrect(isGenerationCancelled, verification)
       /\ ~BudgetExhausted(rec.attempt + 1)
    THEN IssueFix(i, rec, report, verification)
    ELSE Publish(i, rec, report, verification)

\* Lines 65-103, entered with the report just verified: one more turn of the
\* loop up to its await, or the exit of the loop and what follows it.
CorrectionLoop(i, rec, report, verification) ==
    IF ShouldCorrect(isGenerationCancelled, verification)
    THEN IF BudgetExhausted(rec.attempt + 1)
         THEN EndCaught(i, rec, BudgetError)
         ELSE IssueFix(i, rec, report, verification)
    ELSE IF ShouldPublish(verification)
         THEN Publish(i, rec, report, verification)
         ELSE EndUnpublished(i, rec)

\* The resumption without lines 56-60 and 77-81: the flag is left to the loop
\* condition.
ResumeWithoutFlagCheck(i, report) ==
    LET got == [inv[i] EXCEPT !.returned = Append(@, report)] IN
    CorrectionLoop(i, [got EXCEPT !.verified = @ + 1], report,
                   verifyReportData(report))

\* Lines 56-62 and 77-83: the generator returned a report; the flag is read,
\* then the report is verified and the loop is (re-)entered.
Resume(i, report) ==
    LET got == [inv[i] EXCEPT !.returned = Append(@, report)] IN
    IF isGenerationCancelled
    THEN EndCancelled(i, got)
    ELSE CorrectionLoop(i, [got EXCEPT !.verified = @ + 1], report,
                        verifyReportData(report))

\* The resumption after the generate call without lines 56-60.
GenerateReturnsUnchecked(i, report) ==
    /\ inv[i].pc = "generate"
    /\ ResumeWithoutFlagCheck(i, report)
    /\ UNCHANGED << Inputs, outsideVars >>

\* generateFinancialReport resolves (line 55).
GenerateReturns(i, report) ==
    /\ inv[i].pc = "generate"
    /\ Resume(i, report)
    /\ UNCHANGED << Inputs, outsideVars >>

\* The resumption after a fix without lines 77-81.
FixReturnsUnchecked(i, report) ==
    /\ inv[i].pc = "fix"
    /\ ResumeWithoutFlagCheck(i, report)
    /\ UNCHANGED << Inputs, outsideVars >>

\* fixFinancialReport resolves (line 75).
FixReturns(i, report) ==
    /\ inv[i].pc = "fix"
    /\ Resume(i, report)
    /\ UNCHANGED << Inputs, outsideVars >>

\* generateFinancialReport rejects.
GenerateThrows(i, errorMessage) ==
    /\ inv[i].pc = "generate"
    /\ EndCaught(i, [inv[i] EXCEPT !.threw = errorMessage], errorMessage)
    /\ UNCHANGED << Inputs, outsideVars >>

\* A fix call that fails is issued again while the budget lasts.
FixThrowsRetried(i, errorMessage) ==
    /\ inv[i].pc = "fix"
    /\ IF BudgetExhausted(inv[i].attempt + 1)
       THEN EndCaught(i, [inv[i] EXCEPT !.threw = errorMessage], errorMessage)
       ELSE IssueFix(i, [inv[i] EXCEPT !.threw = errorMessage],
                     inv[i].currentReportData, inv[i].currentVerification)
    /\ UNCHANGED << Inputs, outsideVars >>

\* fixFinancialReport rejects.
FixThrows(i, errorMessage) ==
    /\ inv[i].pc = "fix"
    /\ EndCaught(i, [inv[i] EXCEPT !.threw = errorMessage], errorMessage)
    /\ UNCHANGED << Inputs, outsideVars >>

\* ---------------------------------------------- handleCancel, handleReset
\* The invocations that are awaiting the generator learn of the request.
NoteCancelRequest ==
    [i \in Invocations |->
        IF Awaiting(i) THEN [inv[i] EXCEPT !.cancelRequested = TRUE] ELSE inv[i]]

\* Lines 106-108; the Cancel button is part of the loading view.
handleCancel ==
    /\ ShowsLoadingView
    /\ isGenerationCancelled' = TRUE
    /\ inv' = NoteCancelRequest
    /\ UNCHANGED << reportData, verificationResult, isLoading, error, file2024,
                    file2025, apiProvider, apiKey, retryAttempt, outsideVars >>

\* Lines 110-119; "Start Over" is part of the report view and of the error view.
handleReset ==
    /\ ShowsReport \/ ShowsErrorView
    /\ isGenerationCancelled' = TRUE
    /\ reportData' = NULL
    /\ verificationResult' = NULL
    /\ error' = NULL
    /\ file2024' = FALSE
    /\ file2025' = FALSE
    /\ isLoading' = FALSE
    /\ retryAttempt' = 0
    /\ inv' = NoteCancelRequest
    /\ UNCHANGED << apiProvider, apiKey, outsideVars >>

\* ---------------------------------------------------------- specification
GeneratorResponds(i) ==
    \/ \E report \in Reports : GenerateReturns(i, report)
    \/ \E report \in Reports : FixReturns(i, report)
    \/ \E errorMessage \in GenerateErrors : GenerateThrows(i, errorMessage)
    \/ \E errorMessage \in FixErrors : FixThrows(i, errorMessage)

Next ==
    \/ SelectFile2024
    \/ SelectFile2025
    \/ ConfigureApi
    \/ handleGenerateReport
    \/ \E i \in Invocations, report \in Reports : GenerateReturns(i, report)
    \/ \E i \in Invocations, report \in Reports : FixReturns(i, report)
    \/ \E i \in Invocations, errorMessage \in GenerateErrors : GenerateThrows(i, errorMessage)
    \/ \E i \in Invocations, errorMessage \in FixErrors : FixThrows(i, errorMessage)
    \/ handleCancel
    \/ handleReset

Spec == Init /\ [][Next]_vars

\* The generator answers every call: each await resolves or rejects.
FairSpec == Spec /\ \A i \in Invocations : WF_vars(GeneratorResponds(i))

\* ------------------------------------------ a verification run on its own
\* A SingleFinancialValue whose prior-period amount is absent.
ValueCurrentOnly(a25) == [amount2025 |-> a25]

\* The totals a report under verification may carry.  Liabilities are 700.00
\* and 650.00; revenue less expenses is 300.00 in both periods; the three cash
\* flow categories add up to 35.00 and 30.00.
TotalAssetsInputs ==
    { Value(a25, a24) : a25 \in {95000, 100000, 100100, 100101}, a24 \in {90000, 90101} }
    \cup { ValuePriorOnly(a24) : a24 \in {90000, 90101} }
    \cup { ValueCurrentOnly(a25) : a25 \in {100000, 100101} }
TotalEquityInputs == { Value(30000, 25000), Value(25000, 25000) }
NetProfitInputs ==
    { Value(30000 + d25, 30000 + d24) :
        d25 \in {-101, -100, 0, 100, 101}, d24 \in {0, 101} }
NetChangeInCashInputs == { Value(3500, 3000), Value(3399, 3000), Value(3500, 2000) }

VerifierInputs ==
    { [MakeReport(totalAssets, Value(70000, 65000), totalEquity, netProfit)
          EXCEPT !.cashFlowStatement.netChangeInCash = netChangeInCash] :
        totalAssets \in TotalAssetsInputs, totalEquity \in TotalEquityInputs,
        netProfit \in NetProfitInputs, netChangeInCash \in NetChangeInCashInputs }

\* The timestamps a certificate may carry.
Timestamps == {"2025-07-01T09:00:00.000Z", "2025-07-01T09:00:05.000Z"}

\* A VerificationResult as fixFinancialReport receives it.
Stamped(certificate, timestamp) ==
    [overallStatus |-> certificate.overallStatus, checks |-> certificate.checks,
     timestamp |-> timestamp]

FailedOnly(checks) == SelectSeq(checks, LAMBDA c : ~c.passed)

\* The prompt quoting every check, failed or not.
correctionPromptAllChecks(previousReport, verificationErrors) ==
    [report |-> previousReport, verificationCertificate |-> verificationErrors.checks]

\* The prompt quoting a report whose totalEquity has been replaced by
\* totalAssets - totalLiabilities wherever all three are reported.
correctionPromptRebalanced(previousReport, verificationErrors) ==
    LET bs == previousReport.balanceSheet
        rebalanced ==
            [p \in DOMAIN bs.totalEquity |->
                IF Has(bs.totalAssets, p) /\ Has(bs.totalLiabilities, p)
                THEN bs.totalAssets[p] - bs.totalLiabilities[p]
                ELSE bs.totalEquity[p]]
    IN  [report |-> [previousReport EXCEPT !.balanceSheet.totalEquity = rebalanced],
         verificationCertificate |-> FailedOnly(verificationErrors.checks)]

\* What fixFinancialReport puts into its prompt (lines 393-416): the report
\* and the checks with passed = false, each serialised by JSON.stringify, which
\* keeps the order of a list and the fields of an object, and omits a field
\* that is absent.  The rest of the prompt is fixed text.
correctionPrompt(previousReport, verificationErrors) ==
    [report |-> previousReport,
     verificationCertificate |-> FailedOnly(verificationErrors.checks)]

VerifierInit ==
    /\ Mounted
    /\ Installed
    /\ verifierInput \in VerifierInputs
    /\ verifierOutput = NULL
    /\ fixRequest = NULL

\* verifyReportData is called on the report and returns its certificate.
Verify ==
    /\ verifierOutput = NULL
    /\ verifierOutput' = verifyReportData(verifierInput)
    /\ UNCHANGED << verifierInput, fixRequest, appVars, enhancedVars >>

\* fixFinancialReport is called with the report and its certificate, stamped
\* with the time of the verification, and builds its prompt.
BuildCorrection ==
    /\ verifierOutput # NULL
    /\ fixRequest = NULL
    /\ \E timestamp \in Timestamps :
          fixRequest' = correctionPrompt(verifierInput, Stamped(verifierOutput, timestamp))
    /\ UNCHANGED << verifierInput, verifierOutput, appVars, enhancedVars >>

\* The certificate is dropped; the report can be verified again.
Discard ==
    /\ verifierOutput # NULL
    /\ verifierOutput' = NULL
    /\ fixRequest' = NULL
    /\ UNCHANGED << verifierInput, appVars, enhancedVars >>

VerifierNext == Verify \/ BuildCorrection \/ Discard

VerifierSpec == VerifierInit /\ [][VerifierNext]_vars

\* ------------------------------------------- AppContent and the database
\* Requests reach the database through the Supabase client, with the session
\* of the signed-in user; a request the database refuses changes nothing.
AccessLevels == {"owner", "editor", "reviewer", "viewer"}
Statuses == {"draft", "in_review", "approved", "finalized", "lodged"}
StatementDatas == {ReportBalanced, ReportNoAssets}

AuthUid == user
Authenticated == user # NULL

\* EXISTS (SELECT 1 FROM companies WHERE id = c AND created_by = auth.uid())
CreatedCompany(c) ==
    c \in DOMAIN companies /\ companies[c] # NULL /\ companies[c].created_by = AuthUid

\* EXISTS (SELECT 1 FROM company_access WHERE company_id = c
\*         AND user_id = auth.uid() AND access_level IN levels)
HasAccess(c, levels) ==
    \E r \in company_access :
        r.company_id = c /\ r.user_id = AuthUid /\ r.access_level \in levels

\* "Users can create companies"
CompaniesInsertCheck(row) == AuthUid = row.created_by

\* "Company owners can grant access"
CompanyAccessInsertCheck(row) == CreatedCompany(row.company_id) /\ AuthUid = row.granted_by

\* "Company owners can revoke access"
CompanyAccessDeleteUsing(row) == CreatedCompany(row.company_id)

\* The insert policy without its last conjunct.
FinancialStatementsInsertCheckAnyAuthor(row) ==
    HasAccess(row.company_id, {"owner", "editor"}) \/ CreatedCompany(row.company_id)

\* "Editors can create financial statements"
FinancialStatementsInsertCheck(row) ==
    /\ HasAccess(row.company_id, {"owner", "editor"}) \/ CreatedCompany(row.company_id)
    /\ AuthUid = row.created_by

\* "Editors and reviewers can update financial statements": USING and WITH
\* CHECK are the same expression.
FinancialStatementsUpdateUsing(row) ==
    HasAccess(row.company_id, {"owner", "editor", "reviewer"}) \/ CreatedCompany(row.company_id)

\* "System can insert audit logs"
AuditLogsInsertCheck(row) == TRUE

\* The clock is read by every statement, each later than the one before.
Tick == now < MaxTime /\ now' = now + 1

\* An insert into companies.
createCompany(id, created_by) ==
    /\ Authenticated
    /\ companies[id] = NULL
    /\ CompaniesInsertCheck([id |-> id, created_by |-> created_by])
    /\ Tick
    /\ companies' = [companies EXCEPT ![id] = [id |-> id, created_by |-> created_by]]
    /\ UNCHANGED << company_access, financial_statements, audit_logs, shellVars, baseVars >>

\* An insert into company_access; (company_id, user_id) is unique.
grantAccess(company_id, user_id, access_level, granted_by) ==
    LET row == [company_id |-> company_id, user_id |-> user_id,
                access_level |-> access_level, granted_by |-> granted_by]
    IN  /\ Authenticated
        /\ companies[company_id] # NULL
        /\ \A r \in company_access : ~(r.company_id = company_id /\ r.user_id = user_id)
        /\ CompanyAccessInsertCheck(row)
        /\ Tick
        /\ company_access' = company_access \cup {row}
        /\ UNCHANGED << companies, financial_statements, audit_logs, shellVars, baseVars >>

\* A delete from company_access.
revokeAccess(row) ==
    /\ Authenticated
    /\ row \in company_access
    /\ CompanyAccessDeleteUsing(row)
    /\ Tick
    /\ company_access' = company_access \ {row}
    /\ UNCHANGED << companies, financial_statements, audit_logs, shellVars, baseVars >>

\* A timestamptz value: a reading of the clock.
Timestamp(at) == [time |-> at]

\* A row of financial_statements as saveFinancialStatement inserts it: the
\* columns it names (lines 914-923) and the defaults of the others.
NewStatement(id, companyId, financialYearEnd, statementData, certificate, userId, at) ==
    [id |-> id, company_id |-> companyId, financial_year_end |-> financialYearEnd,
     statement_data |-> statementData, verification_result |-> certificate,
     status |-> "draft", version |-> 1, is_current_version |-> TRUE,
     created_by |-> userId, reviewed_by |-> NULL, approved_by |-> NULL,
     approved_at |-> NULL, created_at |-> Timestamp(at), updated_at |-> Timestamp(at)]

\* An UPDATE of one row: the named columns take the new values, and the
\* trigger update_financial_statements_updated_at sets updated_at to now().
Updated(row, updates, at) ==
    LET Set(column) == IF column \in DOMAIN updates THEN updates[column] ELSE row[column]
    IN  [id |-> Set("id"), company_id |-> Set("company_id"),
         financial_year_end |-> Set("financial_year_end"),
         statement_data |-> Set("statement_data"),
         verification_result |-> Set("verification_result"),
         status |-> Set("status"), version |-> Set("version"),
         is_current_version |-> Set("is_current_version"),
         created_by |-> Set("created_by"), reviewed_by |-> Set("reviewed_by"),
         approved_by |-> Set("approved_by"), approved_at |-> Set("approved_at"),
         created_at |-> Set("created_at"), updated_at |-> Timestamp(at)]

saveFinancialStatement(companyId, financialYearEnd, statementData, certificate, userId) ==
    LET row == NewStatement(Len(financial_statements) + 1, companyId, financialYearEnd,
                            statementData, certificate, userId, now + 1)
    IN  /\ Authenticated
        /\ Len(financial_statements) < MaxStatements
        /\ companies[companyId] # NULL
        /\ FinancialStatementsInsertCheck(row)
        /\ Tick
        /\ financial_statements' = Append(financial_statements, row)
        /\ UNCHANGED << companies, company_access, audit_logs, shellVars, baseVars >>

updateFinancialStatement(statementId, statementData, certificate) ==
    LET row == financial_statements[statementId]
        new == Updated(row, [statement_data |-> statementData,
                             verification_result |-> certificate,
                             updated_at |-> Timestamp(now + 1)], now + 1)
    IN  /\ Authenticated
        /\ statementId \in DOMAIN financial_statements
        /\ FinancialStatementsUpdateUsing(row)
        /\ FinancialStatementsUpdateUsing(new)
        /\ Tick
        /\ financial_statements' = [financial_statements EXCEPT ![statementId] = new]
        /\ UNCHANGED << companies, company_access, audit_logs, shellVars, baseVars >>

\* The updates object with the approval written whatever the user id.
StatusUpdatesAlwaysApproving(status, userId, at) ==
    IF status = "approved"
    THEN [status |-> status, approved_by |-> userId, approved_at |-> Timestamp(at)]
    ELSE IF status = "in_review" /\ userId # NULL
    THEN [status |-> status, reviewed_by |-> userId]
    ELSE [status |-> status]

\* Lines 1001-1008: the updates object.
StatusUpdates(status, userId, at) ==
    IF status = "approved" /\ userId # NULL
    THEN [status |-> status, approved_by |-> userId, approved_at |-> Timestamp(at)]
    ELSE IF status = "in_review" /\ userId # NULL
    THEN [status |-> status, reviewed_by |-> userId]
    ELSE [status |-> status]

updateStatementStatus(statementId, status, userId) ==
    LET row == financial_statements[statementId]
        new == Updated(row, StatusUpdates(status, userId, now + 1), now + 1)
    IN  /\ Authenticated
        /\ statementId \in DOMAIN financial_statements
        /\ FinancialStatementsUpdateUsing(row)
        /\ FinancialStatementsUpdateUsing(new)
        /\ Tick
        /\ financial_statements' = [financial_statements EXCEPT ![statementId] = new]
        /\ UNCHANGED << companies, company_access, audit_logs, shellVars, baseVars >>

logAuditEvent(companyId, userId, action) ==
    LET row == [company_id |-> companyId, user_id |-> userId, action |-> action]
    IN  /\ Authenticated
        /\ Len(audit_logs) < MaxAuditLogs
        /\ companies[companyId] # NULL
        /\ AuditLogsInsertCheck(row)
        /\ Tick
        /\ audit_logs' = Append(audit_logs, row)
        /\ UNCHANGED << companies, company_access, financial_statements, shellVars,
                        baseVars >>

\* What AppContent renders (lines 20, 28, 62).
ShowsSpinner == loading
ShowsAuthForms == ~loading /\ (user = NULL \/ profile = NULL)
ShowsShell == ~loading /\ user # NULL /\ profile # NULL
ShowsDashboard == ShowsShell /\ viewMode = "dashboard"
ShowsBackButton == ShowsShell /\ viewMode \in {"generate-report", "add-company"}

\* The provider has looked up the session: nobody is signed in.
SessionLookedUp ==
    /\ loading
    /\ loading' = FALSE
    /\ UNCHANGED << user, profile, authMode, viewMode, selectedCompany, dbVars, baseVars >>

\* onToggleMode of either form (lines 35, 40).
ToggleAuthMode ==
    /\ ShowsAuthForms
    /\ authMode' = IF authMode = "login" THEN "signup" ELSE "login"
    /\ UNCHANGED << user, profile, loading, viewMode, selectedCompany, dbVars, baseVars >>

signIn(id) ==
    /\ ShowsAuthForms
    /\ authMode = "login"
    /\ user = NULL
    /\ user' = id
    /\ UNCHANGED << profile, loading, authMode, viewMode, selectedCompany, dbVars, baseVars >>

signUp(id) ==
    /\ ShowsAuthForms
    /\ authMode = "signup"
    /\ user = NULL
    /\ user' = id
    /\ UNCHANGED << profile, loading, authMode, viewMode, selectedCompany, dbVars, baseVars >>

\* The provider has fetched the profile of the signed-in user.
ProfileLoaded ==
    /\ user # NULL
    /\ profile = NULL
    /\ profile' = [id |-> user]
    /\ UNCHANGED << user, loading, authMode, viewMode, selectedCompany, dbVars, baseVars >>

\* The Sign Out button of the header (line 87).
signOut ==
    /\ ShowsShell
    /\ user' = NULL
    /\ profile' = NULL
    /\ UNCHANGED << loading, authMode, viewMode, selectedCompany, dbVars, baseVars >>

\* Lines 48-51; a company is selected on the dashboard.
handleSelectCompany(company) ==
    /\ ShowsDashboard
    /\ selectedCompany' = company
    /\ viewMode' = "generate-report"
    /\ UNCHANGED << user, profile, loading, authMode, dbVars, baseVars >>

\* Lines 53-56; the back button of the header, and onCancel of the company form.
handleBackToDashboard ==
    /\ ShowsBackButton
    /\ selectedCompany' = NULL
    /\ viewMode' = "dashboard"
    /\ UNCHANGED << user, profile, loading, authMode, dbVars, baseVars >>

\* Lines 58-60; the company form has saved.
handleAddCompanySuccess ==
    /\ ShowsShell
    /\ viewMode = "add-company"
    /\ viewMode' = "dashboard"
    /\ UNCHANGED << user, profile, loading, authMode, selectedCompany, dbVars, baseVars >>

\* Line 101; "create new" on the dashboard.
onCreateNew ==
    /\ ShowsDashboard
    /\ viewMode' = "add-company"
    /\ UNCHANGED << user, profile, loading, authMode, selectedCompany, dbVars, baseVars >>

\* What the shell offers to change the view.  No run reaches a state in which
\* one of these is on offer (see SignedInFindsDashboard), so they are no part
\* of EnhancedNext.
ViewActions ==
    \/ \E id \in CompanyIds : companies[id] # NULL /\ handleSelectCompany(companies[id])
    \/ handleBackToDashboard
    \/ handleAddCompanySuccess
    \/ onCreateNew

SessionActions ==
    \/ SessionLookedUp
    \/ ToggleAuthMode
    \/ \E id \in UserIds : signIn(id)
    \/ \E id \in UserIds : signUp(id)
    \/ ProfileLoaded
    \/ signOut

DatabaseRequests ==
    \/ \E id \in CompanyIds, created_by \in UserIds : createCompany(id, created_by)
    \/ \E company_id \in CompanyIds, user_id \in UserIds, access_level \in AccessLevels,
          granted_by \in UserIds :
          grantAccess(company_id, user_id, access_level, granted_by)
    \/ \E row \in company_access : revokeAccess(row)
    \/ \E companyId \in CompanyIds, financialYearEnd \in YearEnds,
          statementData \in StatementDatas, userId \in UserIds :
          saveFinancialStatement(companyId, financialYearEnd, statementData,
                                 verifyReportData(statementData), userId)
    \/ \E statementId \in 1..MaxStatements, statementData \in StatementDatas :
          updateFinancialStatement(statementId, statementData,
                                   verifyReportData(statementData))
    \/ \E statementId \in 1..MaxStatements, status \in Statuses,
          userId \in UserIds \cup {NULL} :
          updateStatementStatus(statementId, status, userId)
    \/ \E companyId \in CompanyIds, userId \in UserIds :
          logAuditEvent(companyId, userId, "statement_saved")

EnhancedNext == SessionActions \/ DatabaseRequests

EnhancedSpec == Init /\ [][EnhancedNext]_vars

\* ------------------------------------------------------------- properties
NotFailed == { "Passed", "Passed with Warnings" }

Failed(report) == verifyReportData(report).overallStatus = "Failed"

Done(i) == inv[i].pc = "done"

\* C1: whatever the user and the generator do, a report and certificate are
\* on display only if the certificate's overallStatus is Passed or Passed with
\* Warnings, and the report on display is never one that verifies as Failed.
PublishedOnlyIfNotFailed ==
    /\ (reportData # NULL /\ verificationResult # NULL)
          => verificationResult.overallStatus \in NotFailed
    /\ reportData # NULL => ~Failed(reportData)
    /\ \A i \in Invocations :
          inv[i].published # NULL
             => inv[i].published.certificate.overallStatus \in NotFailed

\* A report is on display that an invocation published after a failed
\* verification and a correction.
PublishedAfterCorrection ==
    /\ ShowsReport
    /\ \E i \in Invocations :
          /\ Done(i)
          /\ inv[i].calls >= 2
          /\ Failed(inv[i].returned[1])
          /\ inv[i].published = [report |-> reportData, certificate |-> verificationResult]

AllFailed(i) == \A k \in 1..Len(inv[i].returned) : Failed(inv[i].returned[k])

\* No cancellation was requested and no generator call failed.
Undisturbed(i) == ~inv[i].cancelRequested /\ inv[i].threw = "none"

\* C2: when every report the generator returns verifies as Failed and nobody
\* cancels, the invocation issues 1 generate call and 4 fix calls, 5 in all and
\* never a 6th, and ends with the budget error, whose text quotes 5 attempts.
BudgetIsFiveCalls ==
    \A i \in Invocations :
        (AllFailed(i) /\ Undisturbed(i)) =>
            /\ inv[i].calls <= 5
            /\ Awaiting(i) => inv[i].calls = Len(inv[i].returned) + 1
            /\ Done(i) =>
                  /\ inv[i].calls = 5
                  /\ Len(inv[i].returned) = 5
                  /\ inv[i].calls = BudgetErrorAttempts
                  /\ inv[i].surfaced = MsgFailed(BudgetError)
                  /\ inv[i].published = NULL

\* An invocation has ended on the budget error after five failed reports, and
\* the error is on display.
BudgetExceededShown ==
    \E i \in Invocations :
        /\ Done(i)
        /\ AllFailed(i)
        /\ Undisturbed(i)
        /\ Len(inv[i].returned) = 5
        /\ error = MsgFailed(BudgetError)
        /\ ~isLoading

\* How an invocation can end.
Succeeded(i) == inv[i].published # NULL /\ inv[i].surfaced = NULL
BudgetExceeded(i) == inv[i].published = NULL /\ inv[i].surfaced = MsgFailed(BudgetError)
GenerationError(i) ==
    /\ inv[i].published = NULL
    /\ \E errorMessage \in GenerateErrors \cup FixErrors :
          inv[i].surfaced = MsgFailed(errorMessage)
Cancelled(i) == inv[i].published = NULL /\ inv[i].surfaced = MsgCancelled

Outcomes(i) ==
    { o \in {"success", "budget", "generation", "cancelled"} :
        \/ o = "success" /\ Succeeded(i)
        \/ o = "budget" /\ BudgetExceeded(i)
        \/ o = "generation" /\ GenerationError(i)
        \/ o = "cancelled" /\ Cancelled(i) }

\* C3: if the generator answers every call, every invocation that reached the
\* generator ends; it never issues more than 5 generator calls, and it ends in
\* exactly one of success, budget exceeded, generation error, cancelled.
InvocationTerminates ==
    /\ [](\A i \in Invocations : inv[i].calls <= 5)
    /\ [](\A i \in Invocations : Done(i) => Cardinality(Outcomes(i)) = 1)
    /\ \A i \in Invocations : Awaiting(i) ~> Done(i)

\* An invocation used its whole budget and ended in success on the 5th call.
EndedOnFifthCall ==
    \E i \in Invocations : Done(i) /\ inv[i].calls = 5 /\ Succeeded(i)

\* The position of the first returned report that does not verify as Failed
\* (0 when there is none).
FirstNotFailed(i) ==
    LET ok == { k \in 1..Len(inv[i].returned) : ~Failed(inv[i].returned[k]) }
    IN  IF ok = {} THEN 0 ELSE CHOOSE k \in ok : \A j \in ok : k <= j

\* C4: with no cancellation and no generator failure, if the k-th returned
\* report is the first that does not verify as Failed, the invocation issues
\* exactly k generator calls (k <= 5) and publishes the k-th report with the
\* certificate computed from it, whose status is Passed or Passed with Warnings.
SucceedsOnFirstGoodReport ==
    \A i \in Invocations :
        (Undisturbed(i) /\ FirstNotFailed(i) # 0) =>
            LET k == FirstNotFailed(i) IN
            /\ Done(i)
            /\ k <= 5
            /\ inv[i].calls = k
            /\ Len(inv[i].returned) = k
            /\ Succeeded(i)
            /\ inv[i].published.report = inv[i].returned[k]
            /\ inv[i].published.certificate = verifyReportData(inv[i].returned[k])
            /\ inv[i].published.certificate.overallStatus \in NotFailed

\* The generator fixed the imbalance on its 3rd call, and the 3rd report is
\* on display.
SucceededOnThirdCall ==
    \E i \in Invocations :
        /\ Done(i)
        /\ Undisturbed(i)
        /\ FirstNotFailed(i) = 3
        /\ inv[i].calls = 3
        /\ reportData = inv[i].returned[3]
        /\ verificationResult.overallStatus \in NotFailed

\* Cancellation was requested after the invocation's 1st verification (which
\* failed, or the invocation would have ended) and before any 2nd one.
CancelledAfterFirstVerification(i) ==
    inv[i].cancelRequested /\ inv[i].verified = 1

Returned(i) == Len(inv'[i].returned) = Len(inv[i].returned) + 1

\* C6: the step in which a generator call returns (the generate call or any fix
\* call) reads the cancellation flag before anything else: if the flag is set
\* the invocation ends in that step, with the returned report not verified and
\* no further generator call issued.
FlagCheckedOnEveryReturn ==
    [][ \A i \in Invocations :
          (Returned(i) /\ isGenerationCancelled) =>
              /\ inv'[i].pc = "done"
              /\ inv'[i].cancelSeen
              /\ inv'[i].calls = inv[i].calls
              /\ inv'[i].verified = inv[i].verified
              /\ inv'[i].published = NULL ]_vars

\* The flag was found set when the second fix call returned.
FlagSeenAfterSecondFix ==
    \E i \in Invocations :
        /\ Done(i)
        /\ inv[i].cancelSeen
        /\ inv[i].calls = 3
        /\ Len(inv[i].returned) = 3
        /\ inv[i].verified = 2

\* C7: an invocation during whose generate or fix call cancellation was
\* requested keeps the flag set until it ends, ends with the cancellation
\* message and publishes nothing, whatever the pending call returns.
CancelledNeverPublishes ==
    \A i \in Invocations :
        inv[i].cancelRequested =>
            /\ inv[i].published = NULL
            /\ Awaiting(i) => isGenerationCancelled /\ reportData = NULL
            /\ Done(i) => Cancelled(i) /\ inv[i].cancelSeen

\* Cancel was pressed during the generate call, which then returned a report
\* that verifies as Passed; the user sees the cancellation message, no report.
CancelledThoughReportPasses ==
    \E i \in Invocations :
        /\ Done(i)
        /\ inv[i].cancelRequested
        /\ inv[i].returned = << ReportBalanced >>
        /\ verifyReportData(ReportBalanced).overallStatus = "Passed"
        /\ error = MsgCancelled
        /\ reportData = NULL
        /\ verificationResult = NULL

\* C8: a generator call that fails is the invocation's last: the invocation
\* ends in the step that receives the failure, publishes nothing and, unless
\* cancellation had been requested, surfaces the generator's error.
GeneratorFailureNotRetried ==
    \A i \in Invocations :
        inv[i].threw # "none" =>
            /\ Done(i)
            /\ inv[i].calls = Len(inv[i].returned) + 1
            /\ inv[i].published = NULL
            /\ ~inv[i].cancelRequested =>
                  /\ inv[i].surfaced = MsgFailed(inv[i].threw)
                  /\ GenerationError(i)

\* The second fix call failed; its error is on display and no report is.
SecondFixFailed ==
    \E i \in Invocations :
        /\ Done(i)
        /\ inv[i].threw \in FixErrors
        /\ inv[i].calls = 3
        /\ ~inv[i].cancelRequested
        /\ error = MsgFailed(inv[i].threw)
        /\ reportData = NULL

\* All five reports of invocation i were verified and came out Failed.
BudgetUsedUp(i) == inv[i].verified = 5 /\ Len(inv[i].returned) = 5 /\ AllFailed(i)

\* C9: an invocation that ends without publishing shows exactly one of
\* generation error, budget exceeded, cancelled, and shows the one that
\* happened: cancelled exactly when cancellation was requested, budget exceeded
\* exactly when five reports failed verification, generation error exactly
\* when a generator call failed and no cancellation was requested.
FailureOutcomeIdentified ==
    \A i \in Invocations :
        (Done(i) /\ inv[i].published = NULL) =>
            /\ Cardinality(Outcomes(i)) = 1
            /\ "success" \notin Outcomes(i)
            /\ Cancelled(i) <=> inv[i].cancelRequested
            /\ BudgetExceeded(i) <=> (Undisturbed(i) /\ BudgetUsedUp(i))
            /\ GenerationError(i) <=> (inv[i].threw # "none" /\ ~inv[i].cancelRequested)

\* The generate call failed with nobody cancelling; the user sees the
\* generator's error.
GenerateFailedShown ==
    \E i \in Invocations :
        /\ Done(i)
        /\ inv[i].threw \in GenerateErrors
        /\ ~inv[i].cancelRequested
        /\ Outcomes(i) = {"generation"}
        /\ error = MsgFailed(inv[i].threw)

InFlight == { i \in Invocations : Awaiting(i) }

\* C10 as stated: invocations share no mutable state; in particular each has a
\* cancellation signal of its own, so none begins with the signal already set
\* by the cancellation of an earlier invocation or by a reset.
NoSharedCancellationSignal ==
    \A i \in Invocations : ~inv[i].flagOnEntry

\* C10 (amended): the cancellation flag, the exposed attempt counter and the
\* published pair belong to the component and outlive an invocation, but
\* invocations never overlap and each resets that state when it begins: while
\* an invocation is in flight the flag is set exactly when its own
\* cancellation was requested, the exposed counter is its own attempt counter,
\* and nothing is published or shown as an error.
InvocationsDoNotInterfere ==
    /\ Cardinality(InFlight) <= 1
    /\ \A i \in InFlight :
          /\ isGenerationCancelled <=> inv[i].cancelRequested
          /\ retryAttempt = inv[i].attempt
          /\ inv[i].attempt = inv[i].calls
          /\ isLoading
          /\ reportData = NULL
          /\ verificationResult = NULL
          /\ error = NULL

\* An invocation began with the flag still set from before and is now in its
\* second attempt with the flag clear.
StartedWithStaleFlag ==
    \E i \in InFlight :
        /\ inv[i].flagOnEntry
        /\ ~isGenerationCancelled
        /\ inv[i].pc = "fix"
        /\ retryAttempt = 2

\* The positions of the certificate's checks that failed, and of those that
\* were not evaluated.
FailedChecks(certificate) ==
    { k \in DOMAIN certificate.checks : ~certificate.checks[k].passed }
UnevaluatedChecks(certificate) ==
    { k \in DOMAIN certificate.checks : "notes" \in DOMAIN certificate.checks[k] }

\* C11: the certificate's overallStatus is Failed when at least one check has
\* passed = false, otherwise Passed with Warnings when at least one check was
\* not evaluated, otherwise Passed; a failed check outweighs a check that was
\* not evaluated.
StatusByPriority ==
    verifierOutput # NULL =>
        LET failed == Cardinality(FailedChecks(verifierOutput))
            unevaluated == Cardinality(UnevaluatedChecks(verifierOutput))
            status == verifierOutput.overallStatus
        IN  /\ status \in {"Failed", "Passed with Warnings", "Passed"}
            /\ status = "Failed" <=> failed >= 1
            /\ status = "Passed with Warnings" <=> (failed = 0 /\ unevaluated >= 1)
            /\ status = "Passed" <=> (failed = 0 /\ unevaluated = 0)

\* A certificate with a failed check and a check that was not evaluated.
FailedAndUnevaluated ==
    /\ verifierOutput # NULL
    /\ FailedChecks(verifierOutput) # {}
    /\ UnevaluatedChecks(verifierOutput) # {}
    /\ verifierOutput.overallStatus = "Failed"

PeriodNames == { Periods[k] : k \in DOMAIN Periods }

\* The checks of a certificate that bear a given name and period.
ChecksNamed(certificate, name, p) ==
    { k \in DOMAIN certificate.checks :
        certificate.checks[k].name = name /\ certificate.checks[k].period = p }

TheCheck(certificate, name, p) ==
    certificate.checks[CHOOSE k \in ChecksNamed(certificate, name, p) : TRUE]

\* The amounts of one period of a line-item sequence, added up front to back.
RECURSIVE Total(_, _, _)
Total(items, p, n) ==
    IF n = 0 THEN 0 ELSE Total(items, p, n - 1) + items[n][p]

Sum(items, p) == Total(items, p, Len(items))

\* The three discrepancies of a report for one period.
BalanceSheetDiscrepancy(report, p) ==
    report.balanceSheet.totalAssets[p]
      - (report.balanceSheet.totalLiabilities[p] + report.balanceSheet.totalEquity[p])
IncomeStatementDiscrepancy(report, p) ==
    (Sum(report.incomeStatement.revenue, p) - Sum(report.incomeStatement.expenses, p))
      - report.incomeStatement.netProfit[p]
CashFlowDiscrepancy(report, p) ==
    (Sum(report.cashFlowStatement.operatingActivities, p)
       + Sum(report.cashFlowStatement.investingActivities, p)
       + Sum(report.cashFlowStatement.financingActivities, p))
      - report.cashFlowStatement.netChangeInCash[p]

\* A check records the discrepancy d and passes exactly when |d| <= 1.00.
Records(check, d) ==
    /\ check.discrepancy = d
    /\ check.passed <=> (d >= -Tolerance /\ d <= Tolerance)

\* totalAssets 1000, totalLiabilities 700, totalEquity 250 in the current period.
ThousandSevenHundredTwoFifty(report) ==
    /\ Has(report.balanceSheet.totalAssets, "amount2025")
    /\ report.balanceSheet.totalAssets.amount2025 = 100000
    /\ report.balanceSheet.totalLiabilities.amount2025 = 70000
    /\ report.balanceSheet.totalEquity.amount2025 = 25000

\* C12: for each period whose totals are present, the Balance Sheet check
\* records totalAssets - (totalLiabilities + totalEquity), the Income Statement
\* check (sum of revenue - sum of expenses) - netProfit and the Cash Flow check
\* (operating + investing + financing) - netChangeInCash, each passing exactly
\* when the absolute discrepancy is at most the tolerance 1.00; 1000 / 700 /
\* 250 fails with discrepancy 50.
DiscrepanciesAsDefined ==
    verifierOutput # NULL =>
        /\ \A p \in PeriodNames :
              /\ Has(verifierInput.balanceSheet.totalAssets, p) =>
                    Records(TheCheck(verifierOutput, "Balance Sheet Equation", p),
                            BalanceSheetDiscrepancy(verifierInput, p))
              /\ Records(TheCheck(verifierOutput, "Income Statement Integrity", p),
                         IncomeStatementDiscrepancy(verifierInput, p))
              /\ Records(TheCheck(verifierOutput, "Cash Flow Integrity", p),
                         CashFlowDiscrepancy(verifierInput, p))
        /\ ThousandSevenHundredTwoFifty(verifierInput) =>
              LET check == TheCheck(verifierOutput, "Balance Sheet Equation", "amount2025")
              IN  check.discrepancy = 5000 /\ ~check.passed

\* The report with 1000 / 700 / 250 has been verified: discrepancy 50, failed.
ExampleFailsByFifty ==
    /\ verifierOutput # NULL
    /\ ThousandSevenHundredTwoFifty(verifierInput)
    /\ TheCheck(verifierOutput, "Balance Sheet Equation", "amount2025").discrepancy = 5000
    /\ ~TheCheck(verifierOutput, "Balance Sheet Equation", "amount2025").passed
    /\ verifierOutput.overallStatus = "Failed"

\* Every total the checks need is reported for both periods.
TotalsPresent(report) ==
    \A p \in PeriodNames :
        /\ Has(report.balanceSheet.totalAssets, p)
        /\ Has(report.balanceSheet.totalLiabilities, p)
        /\ Has(report.balanceSheet.totalEquity, p)
        /\ Has(report.incomeStatement.netProfit, p)
        /\ Has(report.cashFlowStatement.netChangeInCash, p)

Within(d) == d >= -Tolerance /\ d <= Tolerance

\* The report obeys the three identities in both periods: the balance sheet
\* within the tolerance, net profit and net change in cash exactly.
Consistent(report) ==
    /\ TotalsPresent(report)
    /\ \A p \in PeriodNames :
          /\ Within(BalanceSheetDiscrepancy(report, p))
          /\ IncomeStatementDiscrepancy(report, p) = 0
          /\ CashFlowDiscrepancy(report, p) = 0

\* C13: a report that obeys the three identities in both periods is certified
\* Passed.
ConsistentReportPasses ==
    (verifierOutput # NULL /\ Consistent(verifierInput))
        => verifierOutput.overallStatus = "Passed"

\* A report whose current-period balance sheet is off by exactly the tolerance
\* and which is otherwise exact has been certified Passed.
ConsistentWithinTolerance ==
    /\ verifierOutput # NULL
    /\ Consistent(verifierInput)
    /\ BalanceSheetDiscrepancy(verifierInput, "amount2025") = Tolerance
    /\ verifierOutput.overallStatus = "Passed"

\* The periods for which the report carries no totalAssets.
PeriodsWithoutAssets(report) ==
    { p \in PeriodNames : ~Has(report.balanceSheet.totalAssets, p) }

\* C14: when totalAssets is missing for a period, verification still returns
\* a certificate with all six checks; that period's Balance Sheet check is
\* recorded as not evaluated (passed, discrepancy 0, notes set); the status is
\* Failed only if some other check failed, and Passed with Warnings when every
\* other check passes.
MissingAssetsNotEvaluated ==
    verifierOutput # NULL =>
        \A p \in PeriodsWithoutAssets(verifierInput) :
            LET named == ChecksNamed(verifierOutput, "Balance Sheet Equation", p)
                check == TheCheck(verifierOutput, "Balance Sheet Equation", p)
                others == DOMAIN verifierOutput.checks \ named
            IN  /\ Len(verifierOutput.checks) = 6
                /\ Cardinality(named) = 1
                /\ check.passed
                /\ check.discrepancy = 0
                /\ "notes" \in DOMAIN check
                /\ verifierOutput.overallStatus = "Failed"
                      <=> \E k \in others : ~verifierOutput.checks[k].passed
                /\ (\A k \in others : verifierOutput.checks[k].passed)
                      => verifierOutput.overallStatus = "Passed with Warnings"

\* A report without current-period totalAssets and otherwise consistent has
\* been certified Passed with Warnings.
MissingAssetsWarns ==
    /\ verifierOutput # NULL
    /\ PeriodsWithoutAssets(verifierInput) = {"amount2025"}
    /\ FailedChecks(verifierOutput) = {}
    /\ "notes" \in DOMAIN TheCheck(verifierOutput, "Balance Sheet Equation", "amount2025")
    /\ verifierOutput.overallStatus = "Passed with Warnings"

\* By how much the reported netProfit of a period departs from revenue less
\* expenses.
NetProfitOffBy(report, p) ==
    report.incomeStatement.netProfit[p]
      - (Sum(report.incomeStatement.revenue, p) - Sum(report.incomeStatement.expenses, p))

\* C15: a netProfit that is off by exactly the tolerance (1.00), either way,
\* leaves that period's Income Statement Integrity check passed; off by 1.01,
\* either way, the check fails.
ToleranceInclusive ==
    verifierOutput # NULL =>
        \A p \in PeriodNames :
            LET check == TheCheck(verifierOutput, "Income Statement Integrity", p)
                off == NetProfitOffBy(verifierInput, p)
            IN  /\ off \in {Tolerance, -Tolerance} => check.passed
                /\ off \in {Tolerance + 1, -(Tolerance + 1)} => ~check.passed

\* One certificate shows both sides of the boundary: the current period off by
\* 1.00 and passed, the prior period off by 1.01 and failed.
BoundaryBothSides ==
    /\ verifierOutput # NULL
    /\ NetProfitOffBy(verifierInput, "amount2025") = -Tolerance
    /\ TheCheck(verifierOutput, "Income Statement Integrity", "amount2025").passed
    /\ NetProfitOffBy(verifierInput, "amount2024") = Tolerance + 1
    /\ ~TheCheck(verifierOutput, "Income Statement Integrity", "amount2024").passed

\* What a report says about one period: each total, if present, and the
\* amounts of each line-item sequence.
Amount(v, p) == IF Has(v, p) THEN << v[p] >> ELSE << >>
Amounts(items, p) == [k \in DOMAIN items |-> items[k][p]]

PeriodView(report, p) ==
    << Amount(report.balanceSheet.totalAssets, p),
       Amount(report.balanceSheet.totalLiabilities, p),
       Amount(report.balanceSheet.totalEquity, p),
       Amounts(report.balanceSheet.equity, p),
       Amount(report.incomeStatement.netProfit, p),
       Amounts(report.incomeStatement.revenue, p),
       Amounts(report.incomeStatement.expenses, p),
       Amount(report.cashFlowStatement.netChangeInCash, p),
       Amounts(report.cashFlowStatement.operatingActivities, p),
       Amounts(report.cashFlowStatement.investingActivities, p),
       Amounts(report.cashFlowStatement.financingActivities, p) >>

\* The checks of a certificate that concern one period.
PeriodChecks(certificate, p) ==
    { certificate.checks[k] :
        k \in { j \in DOMAIN certificate.checks : certificate.checks[j].period = p } }

CheckNames ==
    { "Balance Sheet Equation", "Income Statement Integrity", "Cash Flow Integrity" }

\* C17: the checks of a period depend on that period's amounts only: a report
\* that agrees with the verified one on a period gets the same checks for that
\* period, whatever its other period says; and a report with every total
\* present gets exactly one evaluated check per identity and period.
PeriodsIndependent ==
    verifierOutput # NULL =>
        /\ \A p \in PeriodNames : \A other \in VerifierInputs :
              PeriodView(other, p) = PeriodView(verifierInput, p)
                 => PeriodChecks(verifyReportData(other), p) = PeriodChecks(verifierOutput, p)
        /\ TotalsPresent(verifierInput) =>
              /\ Len(verifierOutput.checks) = 6
              /\ UnevaluatedChecks(verifierOutput) = {}
              /\ \A p \in PeriodNames : \A name \in CheckNames :
                    Cardinality(ChecksNamed(verifierOutput, name, p)) = 1

\* A complete report fails in the current period only, and the inputs hold a
\* report with the same current period and a different, failing prior period.
OnlyCurrentPeriodFails ==
    /\ verifierOutput # NULL
    /\ TotalsPresent(verifierInput)
    /\ FailedChecks(verifierOutput) # {}
    /\ \A k \in FailedChecks(verifierOutput) : verifierOutput.checks[k].period = "amount2025"
    /\ \E other \in VerifierInputs :
          /\ PeriodView(other, "amount2025") = PeriodView(verifierInput, "amount2025")
          /\ PeriodView(other, "amount2024") # PeriodView(verifierInput, "amount2024")
          /\ \E c \in PeriodChecks(verifyReportData(other), "amount2024") : ~c.passed

\* C18: while an invocation awaits the generator the exposed counter equals
\* the number of generator calls it has issued: 1 during the generate call, at
\* most 5 ever; a step of the invocation either issues a fix call and raises
\* the counter by exactly one, or leaves the counter as it is.
AttemptCounterCountsCalls ==
    /\ [](retryAttempt \in 0..MaxAttempts)
    /\ [](\A i \in Invocations :
             Awaiting(i) =>
                /\ retryAttempt = inv[i].calls
                /\ retryAttempt \in 1..MaxAttempts
                /\ inv[i].pc = "generate" => retryAttempt = 1)
    /\ [][\A i \in Invocations :
             Awaiting(i) =>
                IF inv'[i].calls # inv[i].calls
                THEN /\ inv'[i].pc = "fix"
                     /\ inv'[i].calls = inv[i].calls + 1
                     /\ retryAttempt' = retryAttempt + 1
                ELSE retryAttempt' = retryAttempt]_vars

\* The fifth call is pending and the counter shows 5.
FifthCallCounted ==
    \E i \in Invocations :
        inv[i].pc = "fix" /\ inv[i].calls = MaxAttempts /\ retryAttempt = MaxAttempts

\* C19: a pending fix call was given the report that the preceding generator
\* call returned and the certificate computed from that report; the pair on
\* display, and the pair an invocation published, is a report with the
\* certificate computed from it, the report being the last one returned.
WorkingPairIsVerification ==
    /\ \A i \in Invocations :
          inv[i].pc = "fix" =>
             /\ Len(inv[i].returned) = inv[i].calls - 1
             /\ inv[i].currentReportData = inv[i].returned[Len(inv[i].returned)]
             /\ inv[i].currentVerification = verifyReportData(inv[i].currentReportData)
    /\ \A i \in Invocations :
          inv[i].published # NULL =>
             /\ inv[i].published.report = inv[i].returned[Len(inv[i].returned)]
             /\ inv[i].published.certificate = verifyReportData(inv[i].published.report)
    /\ (reportData # NULL /\ verificationResult # NULL)
          => verificationResult = verifyReportData(reportData)

\* Two different failing reports were sent back for correction, and the third
\* report is on display with its certificate.
ThirdPairPublished ==
    \E i \in Invocations :
        /\ Done(i)
        /\ Len(inv[i].returned) = 3
        /\ inv[i].returned[1] # inv[i].returned[2]
        /\ inv[i].published # NULL
        /\ reportData = inv[i].returned[3]
        /\ verificationResult = inv[i].published.certificate

\* Generator calls issued and neither returned nor failed.
Pending(i) ==
    inv[i].calls - Len(inv[i].returned) - (IF inv[i].threw = "none" THEN 0 ELSE 1)

\* C20: an invocation has one generator call pending while it awaits and none
\* otherwise; while a call is pending every report returned so far has been
\* verified, once each; and the step that issues a call is the step in which
\* the pending call returned and its report was verified.
OneCallAtATime ==
    /\ [](\A i \in Invocations :
             /\ Pending(i) = (IF Awaiting(i) THEN 1 ELSE 0)
             /\ Awaiting(i) => inv[i].verified = Len(inv[i].returned)
             /\ inv[i].verified \in {Len(inv[i].returned) - 1, Len(inv[i].returned)} \cap Nat)
    /\ [][\A i \in Invocations :
             (Awaiting(i) /\ inv'[i].calls # inv[i].calls) =>
                /\ inv'[i].calls = inv[i].calls + 1
                /\ Returned(i)
                /\ inv'[i].verified = inv[i].verified + 1
                /\ inv'[i].verified = Len(inv'[i].returned)]_vars

\* The third call is pending: two reports were returned and two verified.
ThirdCallPending ==
    \E i \in Invocations :
        /\ inv[i].pc = "fix"
        /\ inv[i].calls = 3
        /\ Len(inv[i].returned) = 2
        /\ inv[i].verified = 2

\* The k-th failed check of a certificate, in certificate order.
NthFailed(certificate, k) ==
    certificate.checks[CHOOSE j \in FailedChecks(certificate) :
                          Cardinality({ i \in FailedChecks(certificate) : i < j }) = k - 1]

CheckFields == { "name", "period", "discrepancy", "passed" }

RequestHoldsFailedChecks ==
    fixRequest # NULL =>
        LET errors == fixRequest.verificationCertificate IN
        /\ fixRequest.report = verifierInput
        /\ DOMAIN fixRequest = { "report", "verificationCertificate" }
        /\ DOMAIN errors = 1..Cardinality(FailedChecks(verifierOutput))
        /\ \A k \in DOMAIN errors : errors[k] = NthFailed(verifierOutput, k)
        /\ \A k \in DOMAIN errors : "notes" \notin DOMAIN errors[k]
        /\ \A timestamp \in Timestamps :
              correctionPrompt(verifierInput, Stamped(verifierOutput, timestamp)) = fixRequest

\* Two checks failed, one check was not evaluated, and the request holds the
\* two failed ones.
TwoOfThreeQuoted ==
    /\ fixRequest # NULL
    /\ Cardinality(FailedChecks(verifierOutput)) = 2
    /\ UnevaluatedChecks(verifierOutput) # {}
    /\ Len(fixRequest.verificationCertificate) = 2
    /\ fixRequest.verificationCertificate[1] # fixRequest.verificationCertificate[2]

\* C23: the step in which an invocation ends leaves isLoading false and either
\* a report on display with its certificate and no error, or an error message
\* and neither report nor certificate; never both and never neither.
EndsPublishedOrWithError ==
    [][\A i \in Invocations :
          (Awaiting(i) /\ Done(i)') =>
             /\ isLoading' = FALSE
             /\ \/ /\ reportData' # NULL
                   /\ verificationResult' # NULL
                   /\ error' = NULL
                   /\ inv'[i].published =
                        [report |-> reportData', certificate |-> verificationResult']
                \/ /\ error' # NULL
                   /\ reportData' = NULL
                   /\ verificationResult' = NULL
                   /\ inv'[i].published = NULL]_vars

\* An invocation was cancelled while its second fix call was pending and has
\* ended: the loading view is gone, the cancellation message is shown and
\* there is no report.
EndedCancelledWithMessage ==
    \E i \in Invocations :
        /\ Done(i)
        /\ inv[i].cancelSeen
        /\ inv[i].calls = 3
        /\ Len(inv[i].returned) = 3
        /\ ~isLoading
        /\ error = MsgCancelled
        /\ reportData = NULL
        /\ verificationResult = NULL

\* C24: when a generator call fails after cancellation was requested, the
\* invocation ends showing the cancellation message, not the generator's error.
CancellationOutweighsFailure ==
    [][\A i \in Invocations :
          (inv[i].cancelRequested /\ inv[i].threw = "none" /\ inv'[i].threw # "none") =>
             /\ Done(i)'
             /\ error' = MsgCancelled
             /\ inv'[i].surfaced = MsgCancelled
             /\ error' # MsgFailed(inv'[i].threw)]_vars

\* Cancel was pressed during the first fix call, which then failed.
FixFailedAfterCancel ==
    \E i \in Invocations :
        /\ Done(i)
        /\ inv[i].cancelRequested
        /\ inv[i].threw \in FixErrors
        /\ inv[i].calls = 2
        /\ error = MsgCancelled

\* Inputs that handleGenerateReport turns down.
DocumentMissing == ~file2024 \/ ~file2025
KeyMissing == apiProvider = "openrouter" /\ apiKey = ""

\* C26: a call of handleGenerateReport with a document missing, or with the
\* provider openrouter and an empty key, sets the matching error message and
\* changes nothing else: no generator call, no loading state, and the report,
\* the certificate, the attempt counter and the cancellation flag as before.
InvalidInputsRejected ==
    [][(handleGenerateReport /\ (DocumentMissing \/ KeyMissing)) =>
          /\ error' = (IF DocumentMissing THEN MsgUploadBoth ELSE MsgApiKeyRequired)
          /\ isLoading' = FALSE
          /\ \A i \in Invocations : inv'[i].calls = inv[i].calls /\ ~Awaiting(i)'
          /\ UNCHANGED << reportData, verificationResult, retryAttempt,
                          isGenerationCancelled, inv >>]_vars

\* After a cancelled invocation the user switched to openrouter without a key
\* and pressed Generate: the key message is shown, the flag is still set and
\* the counter still shows the cancelled invocation's attempts.
KeyRequiredAfterCancel ==
    /\ error = MsgApiKeyRequired
    /\ KeyMissing
    /\ ~DocumentMissing
    /\ isGenerationCancelled
    /\ retryAttempt = 2
    /\ ~isLoading
    /\ \A i \in Invocations : ~Awaiting(i)

\* The user of the session may read rows of company c: the condition of the
\* SELECT policies of the additional tables.
CanAccess(c) == CreatedCompany(c) \/ HasAccess(c, AccessLevels)

\* C22: a row is inserted into audit_logs only by a user with access to the
\* row's company: its creator, or a user with a company_access row for it.
AuditInsertNeedsAccess ==
    [][Len(audit_logs') > Len(audit_logs) =>
          CanAccess(audit_logs'[Len(audit_logs')].company_id)]_vars

\* C27: no two stored statements of one company and one financial year end
\* both have is_current_version = true.
OneCurrentVersionPerYear ==
    \A i, j \in DOMAIN financial_statements :
        (/\ i # j
         /\ financial_statements[i].company_id = financial_statements[j].company_id
         /\ financial_statements[i].financial_year_end
              = financial_statements[j].financial_year_end
         /\ financial_statements[i].is_current_version)
            => ~financial_statements[j].is_current_version

\* The columns updateStatementStatus names for a status and a user id.
StatusColumns(status, userId) ==
    IF status = "approved" /\ userId # NULL THEN {"status", "approved_by", "approved_at"}
    ELSE IF status = "in_review" /\ userId # NULL THEN {"status", "reviewed_by"}
    ELSE {"status"}

\* The columns of a row that a step changed.
Changed(statementId) ==
    { column \in DOMAIN financial_statements[statementId] :
        financial_statements'[statementId][column] # financial_statements[statementId][column] }

\* What a call of updateStatementStatus does, apart from the columns it may
\* change: the status is the new one whatever the old one was, approved_by and
\* approved_at, or reviewed_by, are written when called for, and no other row
\* is touched.
StatusWritten(statementId, status, userId) ==
    LET new == financial_statements'[statementId] IN
    /\ new.status = status
    /\ "approved_by" \in StatusColumns(status, userId)
          => new.approved_by = userId /\ new.approved_at = Timestamp(now')
    /\ "reviewed_by" \in StatusColumns(status, userId) => new.reviewed_by = userId
    /\ \A other \in DOMAIN financial_statements \ {statementId} :
          financial_statements'[other] = financial_statements[other]

\* Every status is accepted for every row the user may update.
AnyStatusAccepted ==
    \A statementId \in DOMAIN financial_statements, status \in Statuses :
        (Authenticated /\ FinancialStatementsUpdateUsing(financial_statements[statementId])
           /\ now < MaxTime)
            => ENABLED updateStatementStatus(statementId, status, NULL)

\* C28 as stated: updateStatementStatus changes approved_by and approved_at only
\* for status approved with a user id, reviewed_by only for status in_review
\* with a user id, and otherwise only the status column; any status is accepted.
StatusUpdateChangesOnlyNamedColumns ==
    /\ []AnyStatusAccepted
    /\ [][\A statementId \in 1..MaxStatements, status \in Statuses,
             userId \in UserIds \cup {NULL} :
             updateStatementStatus(statementId, status, userId) =>
                /\ StatusWritten(statementId, status, userId)
                /\ Changed(statementId) \subseteq StatusColumns(status, userId)]_vars

\* C28 (amended): as stated, except that every call also changes updated_at,
\* which the trigger on financial_statements sets on each update; in the cases
\* without a user id, or with another status, status and updated_at are the
\* only columns changed.
StatusUpdateChangesNamedColumnsAndUpdatedAt ==
    /\ []AnyStatusAccepted
    /\ [][\A statementId \in 1..MaxStatements, status \in Statuses,
             userId \in UserIds \cup {NULL} :
             updateStatementStatus(statementId, status, userId) =>
                /\ StatusWritten(statementId, status, userId)
                /\ "updated_at" \in Changed(statementId)
                /\ Changed(statementId)
                     \subseteq StatusColumns(status, userId) \cup {"updated_at"}]_vars

\* A statement was approved by a user and then set back to draft: it keeps
\* the approval columns and its updated_at is later than its approved_at.
ApprovedThenDraft ==
    \E statementId \in DOMAIN financial_statements :
        LET row == financial_statements[statementId] IN
        /\ row.status = "draft"
        /\ row.approved_by \in UserIds
        /\ row.approved_at # NULL
        /\ row.reviewed_by = NULL
        /\ row.updated_at # row.approved_at
        /\ row.updated_at # row.created_at

\* C29: a row is inserted into financial_statements only by its author, who
\* created the company or has access level owner or editor for it; a row is
\* updated only by a user who created the company or has level owner, editor
\* or reviewer.  A viewer, or a user without an access row, who did not create
\* the company does neither.
StatementWritesNeedAccess ==
    [][/\ Len(financial_statements') > Len(financial_statements) =>
             LET row == financial_statements'[Len(financial_statements')] IN
             /\ Authenticated
             /\ row.created_by = AuthUid
             /\ CreatedCompany(row.company_id)
                   \/ HasAccess(row.company_id, {"owner", "editor"})
       /\ \A statementId \in DOMAIN financial_statements :
             financial_statements'[statementId] # financial_statements[statementId] =>
                /\ Authenticated
                /\ CreatedCompany(financial_statements[statementId].company_id)
                      \/ HasAccess(financial_statements[statementId].company_id,
                                   {"owner", "editor", "reviewer"})]_vars

\* A statement of a company stands under the name of a user who did not create
\* the company and is its editor.
EditorSavedStatement ==
    \E statementId \in DOMAIN financial_statements :
        LET row == financial_statements[statementId] IN
        /\ companies[row.company_id].created_by # row.created_by
        /\ \E r \in company_access :
              /\ r.company_id = row.company_id
              /\ r.user_id = row.created_by
              /\ r.access_level = "editor"

\* A step of the signed-in user that brings up the dashboard.
ReachesDashboard == ViewActions /\ viewMode' = "dashboard"

\* C30: whenever a user is signed in, with user and profile present, the
\* dashboard is rendered or a user action brings it up.
SignedInFindsDashboard ==
    ShowsShell => (ShowsDashboard \/ ENABLED ReachesDashboard)

====
